---- MODULE Spec2Model ----
(***************************************************************************)
(* A model of the mkdocs-bibtex plugin: src/mkdocs_bibtex/plugin.py        *)
(* (BibTeXPlugin) and src/mkdocs_bibtex/utils.py (the citation helpers).   *)
(*                                                                         *)
(* Text is a sequence of one-character strings.  The regular expressions   *)
(* of utils.py are modelled by scanners that follow Python's backtracking  *)
(* order (greedy \S+, greedy optional group, lazy .*?).                    *)
(***************************************************************************)
EXTENDS Integers, Sequences, FiniteSets, TLC

\* ------------------------------------------------------------------ bounds
\* Last value of the wall clock (time.time() and st_mtime are drawn from it).
MaxTime == 3

\* Most pages a Zotero library is served in, and most request exceptions
\* (requests.exceptions.RequestException) in one download.
MaxPages == 3
MaxExceptions == 6

\* ------------------------------------------------------------ characters
\* Python's \s (the ASCII part) and \S.
WS == {" ", "\t", "\n", "\r", "\f"}

IsWs(c) == c \in WS

\* Python's . without re.DOTALL: anything but a newline.
IsDot(c) == c # "\n"

\* The class [^\s,\]] of extract_cite_keys.
IsKeyChar(c) == ~IsWs(c) /\ c # "," /\ c # "]"

\* ------------------------------------------------------- string helpers
\* Length of the longest run of characters satisfying P that starts at s[i].
RECURSIVE Run(_, _, _)
Run(P(_), s, i) ==
    IF i <= Len(s) /\ P(s[i]) THEN 1 + Run(P, s, i + 1) ELSE 0

NotWs(c) == ~IsWs(c)

\* s[i..] starts with t.
StartsWith(s, i, t) ==
    /\ i + Len(t) - 1 <= Len(s)
    /\ \A j \in 1..Len(t) : s[i + j - 1] = t[j]

\* str.replace(old, new) from position i on: every non-overlapping occurrence,
\* left to right (old is never empty here).
RECURSIVE ReplaceFrom(_, _, _, _)
ReplaceFrom(s, i, old, new) ==
    IF i > Len(s) THEN <<>>
    ELSE IF StartsWith(s, i, old)
         THEN new \o ReplaceFrom(s, i + Len(old), old, new)
         ELSE <<s[i]>> \o ReplaceFrom(s, i + 1, old, new)

Replace(s, old, new) == ReplaceFrom(s, 1, old, new)

\* t occurs in s.
Contains(s, t) == \E i \in 1..(Len(s) - Len(t) + 1) : StartsWith(s, i, t)

\* "sep".join(parts)
RECURSIVE Join(_, _)
Join(sep, parts) ==
    IF parts = <<>> THEN <<>>
    ELSE IF Len(parts) = 1 THEN parts[1]
    ELSE parts[1] \o sep \o Join(sep, Tail(parts))

\* str(n) for the numbers the model reaches.
Digit(d) == <<"0", "1", "2", "3", "4", "5", "6", "7", "8", "9">>[d + 1]

RECURSIVE ToStr(_)
ToStr(n) == IF n < 10 THEN <<Digit(n)>> ELSE ToStr(n \div 10) \o <<Digit(n % 10)>>

\* list(OrderedDict.fromkeys(xs)) / list(dict.fromkeys(xs)): first occurrences.
RECURSIVE Dedup(_)
Dedup(xs) ==
    IF xs = <<>> THEN <<>>
    ELSE LET r == Dedup(SubSeq(xs, 1, Len(xs) - 1))
             x == xs[Len(xs)]
         IN IF \E i \in 1..Len(r) : r[i] = x THEN r ELSE Append(r, x)

\* Position of x in xs (0 when absent).
IndexOf(xs, x) ==
    IF \E i \in 1..Len(xs) : xs[i] = x
    THEN CHOOSE i \in 1..Len(xs) : xs[i] = x /\ \A j \in 1..(i - 1) : xs[j] # x
    ELSE 0

\* ------------------------------------------------ the citation regex
\* cite_regex == (\[(-{0,1}@\S+)(?:,\s*(.*?))?\])
\* Lazy .*? followed by \]: the first "]" at or after g with no newline
\* before it (0: none).
RECURSIVE LazyClose(_, _)
LazyClose(s, g) ==
    IF g > Len(s) THEN 0
    ELSE IF s[g] = "]" THEN g
    ELSE IF IsDot(s[g]) THEN LazyClose(s, g + 1)
    ELSE 0

\* Where the optional group (?:,\s*(.*?))? starts its .*? when entered at q.
SuffixStart(s, q) == q + 1 + Run(IsWs, s, q + 1)

\* What follows \S+ when it stops before s[q]: the optional group first
\* (it needs a comma), else the closing bracket.  The position of the
\* closing "]" (0: no match).
TryClose(s, q) ==
    IF q > Len(s) THEN 0
    ELSE IF s[q] = "," THEN LazyClose(s, SuffixStart(s, q))
    ELSE IF s[q] = "]" THEN q
    ELSE 0

\* Greedy \S+ from p: the largest k in 1..n that lets the rest match (0: none).
RECURSIVE GreedyKey(_, _, _)
GreedyKey(s, p, k) ==
    IF k < 1 THEN 0
    ELSE IF TryClose(s, p + k) # 0 THEN k
    ELSE GreedyKey(s, p, k - 1)

\* A match: the position of its last character (0: no match) and group 3
\* ("" both when the group is empty and when it did not take part).
NoMatch == [end |-> 0, suffix |-> <<>>]

\* The match once \S+ has settled before s[q] and "]" is at e.
MatchEnd(s, q, e) ==
    [end |-> e,
     suffix |-> IF s[q] = "," THEN SubSeq(s, SuffixStart(s, q), e - 1) ELSE <<>>]

\* The match whose \S+ starts at p and takes k characters.
MatchClose(s, p, k) ==
    IF k = 0 THEN NoMatch ELSE MatchEnd(s, p + k, TryClose(s, p + k))

\* The match whose "@" is expected at s[at].
MatchKey(s, at) ==
    IF at > Len(s) \/ s[at] # "@" THEN NoMatch
    ELSE MatchClose(s, at + 1, GreedyKey(s, at + 1, Run(NotWs, s, at + 1)))

\* MatchAt with any run of characters allowed between "[" and "@".
MatchLoose(s, i) ==
    IF i > Len(s) \/ s[i] # "[" THEN NoMatch
    ELSE MatchKey(s, i + 1 + Run(LAMBDA c : c # "@", s, i + 1))

\* The match of cite_regex that starts at s[i].
MatchAt(s, i) ==
    IF i > Len(s) \/ s[i] # "[" THEN NoMatch
    ELSE MatchKey(s, IF i + 1 <= Len(s) /\ s[i + 1] = "-" THEN i + 2 ELSE i + 1)

\* re.finditer: leftmost matches, each search resuming after the last match.
RECURSIVE FindFrom(_, _)
FindStep(s, i, m) ==
    IF m.end # 0
    THEN <<SubSeq(s, i, m.end)>> \o FindFrom(s, m.end + 1)
    ELSE FindFrom(s, i + 1)

FindFrom(s, i) == IF i > Len(s) THEN <<>> ELSE FindStep(s, i, MatchAt(s, i))

find_cite_blocks(markdown) == FindFrom(markdown, 1)

\* cite_regex.search(s): the leftmost match (NoMatch when there is none).
RECURSIVE SearchFrom(_, _)
SearchStep(s, i, m) == IF m.end # 0 THEN m ELSE SearchFrom(s, i + 1)

SearchFrom(s, i) == IF i > Len(s) THEN NoMatch ELSE SearchStep(s, i, MatchAt(s, i))

\* re.findall(r"@([^\s,\]]+)", cite_block)
RECURSIVE KeysFrom(_, _)
KeysStep(s, i, n) ==
    IF s[i] = "@" /\ n >= 1
    THEN <<SubSeq(s, i + 1, i + n)>> \o KeysFrom(s, i + 1 + n)
    ELSE KeysFrom(s, i + 1)

KeysFrom(s, i) ==
    IF i > Len(s) THEN <<>> ELSE KeysStep(s, i, Run(IsKeyChar, s, i + 1))

extract_cite_keys(cite_block) == KeysFrom(cite_block, 1)

\* str.strip()
RECURSIVE Strip(_)
Strip(s) ==
    IF s = <<>> THEN s
    ELSE IF IsWs(s[1]) THEN Strip(Tail(s))
    ELSE IF IsWs(s[Len(s)]) THEN Strip(SubSeq(s, 1, Len(s) - 1))
    ELSE s

\* --------------------------------------------------- utils.py functions
\* A citation quad is <<cite_block, key, footnote label, citation text>>.
\* The raw text pybtex renders for an entry (PlainStyle, markdown backend):
\* an external library, modelled as a text fixed by the entry's key and
\* content, with a line break and an escaped period for format_simple to
\* normalise.
PybtexRender(key, entry) == <<"T">> \o key \o <<"\n">> \o entry \o <<"\\", ".">>

\* format_simple on one entry: newlines to blanks, then \( \) \. unescaped.
FormatEntry(key, entry) ==
    Replace(Replace(Replace(Replace(PybtexRender(key, entry),
        <<"\n">>, <<" ">>), <<"\\", "(">>, <<"(">>), <<"\\", ")">>, <<")">>),
        <<"\\", ".">>, <<".">>)

\* format_simple(entries): entries is a sequence of <<key, entry>> (an
\* OrderedDict); so is the result, <<key, text>>.
format_simple(entries) ==
    [i \in 1..Len(entries) |-> <<entries[i][1], FormatEntry(entries[i][1], entries[i][2])>>]

\* Length of the first group itertools.groupby cuts: the leading quads that
\* share quads[1]'s cite block.
RECURSIVE GroupLen(_)
GroupLen(quads) ==
    IF Len(quads) <= 1 THEN Len(quads)
    ELSE IF quads[2][1] = quads[1][1] THEN 1 + GroupLen(Tail(quads))
    ELSE 1

\* "".join(["[^{}]".format(quad[2]) for quad in quad_group])
RECURSIVE FootnoteRefs(_)
FootnoteRefs(group) ==
    IF group = <<>> THEN <<>>
    ELSE <<"[", "^">> \o group[1][3] \o <<"]">> \o FootnoteRefs(Tail(group))

\* The suffix insert_citation_keys appends: " " + group(3).strip() when the
\* regex finds a match in the block whose group 3 is not blank.
SuffixText(match) ==
    IF match.end # 0 /\ match.suffix # <<>> /\ Strip(match.suffix) # <<>>
    THEN <<" ">> \o Strip(match.suffix)
    ELSE <<>>

SuffixOf(full_citation) == SuffixText(SearchFrom(full_citation, 1))

\* One turn of insert_citation_keys' loop: the block of quad_group replaced
\* throughout markdown.
ReplaceGroup(quad_group, markdown) ==
    Replace(markdown, quad_group[1][1],
            FootnoteRefs(quad_group) \o SuffixOf(quad_group[1][1]))

RECURSIVE insert_citation_keys(_, _)
InsertGroups(citation_quads, n, markdown) ==
    insert_citation_keys(SubSeq(citation_quads, n + 1, Len(citation_quads)),
                         ReplaceGroup(SubSeq(citation_quads, 1, n), markdown))

insert_citation_keys(citation_quads, markdown) ==
    IF citation_quads = <<>> THEN markdown
    ELSE InsertGroups(citation_quads, GroupLen(citation_quads), markdown)

\* BibLabels with a label for every quad, repeated ones included.
AllLabels(citation_quads) == [i \in 1..Len(citation_quads) |-> citation_quads[i][3]]

\* new_bib = {quad[2]: quad[3] for quad in citation_quads}: the labels in
\* first-occurrence order, each with the text of its last quad.
BibLabels(citation_quads) == Dedup([i \in 1..Len(citation_quads) |-> citation_quads[i][3]])

BibText(citation_quads, label) ==
    LET last == CHOOSE i \in 1..Len(citation_quads) :
                    /\ citation_quads[i][3] = label
                    /\ \A j \in (i + 1)..Len(citation_quads) : citation_quads[j][3] # label
    IN citation_quads[last][4]

\* "[^{}]: {}".format(key, citation)
BibLine(label, citation) == <<"[", "^">> \o label \o <<"]", ":", " ">> \o citation

BibLines(citation_quads, labels) ==
    [i \in 1..Len(labels) |-> BibLine(labels[i], BibText(citation_quads, labels[i]))]

format_bibliography(citation_quads) ==
    Join(<<"\n">>, BibLines(citation_quads, BibLabels(citation_quads)))

\* ------------------------------------------------------------- inputs
\* Citation keys and entry contents, as text.  pybtex looks keys up without
\* regard to case; the keys here are all lower case.
KeyA == <<"a">>
KeyB == <<"b">>
KeyM == <<"m">>

\* The bibliography files under bib_dir (one, as in the tests); a file's
\* content is the sequence of <<key, entry>> that parse_file reads from it.
\* refs.bib is rewritten with or without KeyB and with either content of
\* KeyA.  No file ever holds KeyM.
BibFiles == <<"refs.bib">>

FirstContent == << <<KeyA, <<"1">>>>, <<KeyB, <<"1">>>> >>

FileContents(f) == {FirstContent, << <<KeyA, <<"2">>>> >>}

\* config_scheme defaults of the two command tokens.
bib_command == <<"\\", "b", "i", "b", "l", "i", "o", "g", "r", "a", "p", "h", "y">>
full_bib_command == <<"\\", "f", "u", "l", "l", "_">> \o Tail(bib_command)

NumberPlaceholder == <<"{", "n", "u", "m", "b", "e", "r", "}">>

\* The plugin configurations mkdocs.yml is given: the defaults with a
\* bib_dir, and that with one option changed.
DefaultConfig ==
    [bib_dir |-> TRUE, footnote_format |-> NumberPlaceholder, bib_by_default |-> TRUE]

Configs ==
    { DefaultConfig,
      [DefaultConfig EXCEPT !.bib_by_default = FALSE],
      [DefaultConfig EXCEPT !.footnote_format = <<"r">> \o NumberPlaceholder],
      [DefaultConfig EXCEPT !.footnote_format = <<"r">>],
      [DefaultConfig EXCEPT !.bib_dir = FALSE] }

\* The citation markers the pages use.
CiteA == <<"[", "@", "a", "]">>
CiteB == <<"[", "@", "b", "]">>
CiteM == <<"[", "@", "m", "]">>
CiteANote == <<"[", "@", "a", ",", " ", "p", " ", "2", "]">>
\* A marker whose suffix holds the text of another marker.
CiteBSeeA == <<"[", "@", "b", ",", " ">> \o CiteA
CmdCiteANote == <<"\\", "c", "i", "t", "e", "[", "S", " ", "4", "]", "{", "a", "}">>
CmdCiteAB == <<"\\", "c", "i", "t", "e", "{", "a", ",", "b", "}">>
CmdCiteM == <<"\\", "c", "i", "t", "e", "{", "m", "}">>

\* Text that is no citation: another command, a command form whose note is
\* not closed, e-mail-like bracket text, and a key list that is not closed.
OtherCommand == <<"\\", "p", "a", "r", "e", "n", "c", "i", "t", "e", "{", "a", "}">>
OpenNote == <<"\\", "c", "i", "t", "e", "[", "S", " ", "2", "{", "a", "}">>
MailText == <<"[", "m", "@", "e", ".", "c", "]">>
OpenKeys == <<"\\", "c", "i", "t", "e", "{", "a">>

\* The pages of the site: markdown handed to on_page_markdown.
Pages ==
    { CiteA,
      CiteB \o <<" ">> \o CiteA,
      CiteM \o <<" ">> \o CiteA,
      CiteANote \o <<"\n">> \o full_bib_command,
      CiteA \o CiteB,
      CiteM,
      CmdCiteANote \o <<".", " ">> \o CmdCiteAB,
      CmdCiteM,
      OtherCommand,
      OpenNote,
      MailText,
      OpenKeys \o <<" ">> \o CiteA,
      CiteANote \o <<" ">> \o CiteA \o <<" ">> \o CiteB,
      CiteA \o <<" ">> \o CiteBSeeA }

\* The cite_keys lists format_citations is called with directly.
CiteKeyLists ==
    { <<CiteM>>, <<CiteANote, CiteB>>, <<CmdCiteM>>, <<CmdCiteANote, CmdCiteAB>>,
      <<OpenKeys>> }

\* ------------------------------------------------------------ state
VARIABLES
    config,          \* self.config: the options mkdocs hands the plugin
    files,           \* the .bib files under bib_dir: st_mtime and content
    clock,           \* the wall clock
    bib_data,        \* self.bib_data: <<>> for None, else <<entries>>
    all_references,  \* self.all_references: <<key, text>> in insertion order
    footnote_format, \* self.footnote_format: <<>> while the attribute is unset
    last_configured, \* self.last_configured: <<>> while the attribute is unset
    warnings,        \* what the plugin's logger has received at WARNING level
    call,            \* the last call made on the plugin: arguments and outcome
    download         \* a call of tempfile_from_zotero_url: its locals and outcome

vars == <<config, files, clock, bib_data, all_references, footnote_format,
          last_configured, warnings, call, download>>

plugin == <<bib_data, all_references, footnote_format, last_configured>>

NoCall ==
    [op |-> "__init__", markdown |-> <<>>, cite_keys |-> <<>>, raised |-> "",
     quads |-> <<>>, ret |-> <<>>]

\* ----------------------------------------------------- dictionaries
\* d is a sequence of <<key, value>> with distinct keys.
HasKey(d, key) == \E i \in 1..Len(d) : d[i][1] = key

Lookup(d, key) == d[CHOOSE i \in 1..Len(d) : d[i][1] = key][2]

\* Update with the new items put before the old ones.
UpdateFirst(d, e) == e \o d

\* dict.update(e): values of existing keys replaced in place, new keys appended.
RECURSIVE Update(_, _)
Update(d, e) ==
    IF e = <<>> THEN d
    ELSE LET k == e[1][1]
             d1 == IF HasKey(d, k)
                   THEN [i \in 1..Len(d) |-> IF d[i][1] = k THEN e[1] ELSE d[i]]
                   ELSE Append(d, e[1])
         IN Update(d1, Tail(e))

\* ------------------------------------------------------ BibTeXPlugin
\* format_footnote_key: self.footnote_format.format(number=number)
format_footnote_key(fmt, number) == Replace(fmt, NumberPlaceholder, number)

\* [[cite_block, key] for cite_block in cite_keys for key in extract_cite_keys(cite_block)]
RECURSIVE Pairs(_)
Pairs(cite_keys) ==
    IF cite_keys = <<>> THEN <<>>
    ELSE LET ks == extract_cite_keys(cite_keys[1])
         IN [i \in 1..Len(ks) |-> <<cite_keys[1], ks[i]>>] \o Pairs(Tail(cite_keys))

\* keys = list(OrderedDict.fromkeys([k for _, k in pairs]).keys())
PairKeys(pairs) == Dedup([i \in 1..Len(pairs) |-> pairs[i][2]])

\* numbers = {k: str(n + 1) for n, k in enumerate(keys)}, computed from the
\* pairs before the absent keys are removed.
NumberOf(pairs, key) == ToStr(IndexOf(PairKeys(pairs), key))

\* pairs = [p for p in pairs if p[1] in self.bib_data.entries]
ExistingPairs(pairs, entries) ==
    LET Known(p) == HasKey(entries, p[2]) IN SelectSeq(pairs, Known)

\* The entries format_citations collects for formatting: the keys of the
\* pairs that all_references does not hold yet, in first-occurrence order.
FreshKeys(pairs, refs) ==
    LET Fresh(k) == ~HasKey(refs, k) IN SelectSeq(PairKeys(pairs), Fresh)

EntriesOf(ks, entries) == [i \in 1..Len(ks) |-> <<ks[i], Lookup(entries, ks[i])>>]

Unformatted(pairs, entries, refs) == EntriesOf(FreshKeys(pairs, refs), entries)

\* A result of format_citations: what it raises, the all_references it
\* leaves and the quads it returns.
Result(raised, refs, quads) ==
    [raised |-> raised, all_references |-> refs, quads |-> quads, ret |-> <<>>]

\* Step 4 of format_citations: the quads of the existing pairs, numbered by
\* the call's own numbers, with the texts all_references (refs1) now holds.
Quads(all_pairs, pairs, refs1, fmt) ==
    Dedup([i \in 1..Len(pairs) |->
             <<pairs[i][1],
               pairs[i][2],
               format_footnote_key(fmt, NumberOf(all_pairs, pairs[i][2])),
               Lookup(refs1, pairs[i][2])>>])

\* self.footnote_format is read only once all_references has been updated.
BuildQuads(all_pairs, pairs, refs1, fmt) ==
    IF pairs # <<>> /\ fmt = <<>>
    THEN Result("AttributeError", refs1, <<>>)
    ELSE Result("", refs1, Quads(all_pairs, pairs, refs1, fmt[1]))

\* CollectAndFormat with step 2's "if key not in self.all_references" left
\* out and the formatted entries appended to the registry.
CollectAndAppend(all_pairs, pairs, entries, refs, fmt) ==
    BuildQuads(all_pairs, pairs,
               refs \o format_simple(EntriesOf(PairKeys(pairs), entries)), fmt)

\* Steps 2 and 3: self.all_references.update(format_simple(entries))
CollectAndFormat(all_pairs, pairs, entries, refs, fmt) ==
    BuildQuads(all_pairs, pairs,
               Update(refs, format_simple(Unformatted(pairs, entries, refs))), fmt)

\* FormatPairs with self.bib_data.entries read before the pairs are looked at.
FormatPairsEager(all_pairs, bd, refs, fmt) ==
    IF bd = <<>> THEN Result("AttributeError", refs, <<>>)
    ELSE CollectAndFormat(all_pairs, ExistingPairs(all_pairs, bd[1]), bd[1], refs, fmt)

\* FormatPairs with the absent keys not removed: self.bib_data.entries[key]
\* raises KeyError on the first of them.
FormatPairsUnfiltered(all_pairs, bd, refs, fmt) ==
    IF all_pairs = <<>> THEN Result("", refs, <<>>)
    ELSE IF bd = <<>> THEN Result("AttributeError", refs, <<>>)
    ELSE IF ExistingPairs(all_pairs, bd[1]) # all_pairs THEN Result("KeyError", refs, <<>>)
    ELSE CollectAndFormat(all_pairs, all_pairs, bd[1], refs, fmt)

\* self.bib_data.entries is read only when there is a pair to test.
FormatPairs(all_pairs, bd, refs, fmt) ==
    IF all_pairs = <<>> THEN Result("", refs, <<>>)
    ELSE IF bd = <<>> THEN Result("AttributeError", refs, <<>>)
    ELSE CollectAndFormat(all_pairs, ExistingPairs(all_pairs, bd[1]), bd[1], refs, fmt)

\* format_citations(cite_keys) on a plugin whose attributes are bd
\* (bib_data), refs (all_references) and fmt (footnote_format).
format_citations(cite_keys, bd, refs, fmt) == FormatPairs(Pairs(cite_keys), bd, refs, fmt)

\* full_bibliography with the first reference of the registry left out.
TailBibliography(refs) ==
    Join(<<"\n">>, [i \in 1..(Len(refs) - 1) |-> BibLine(ToStr(i), refs[i + 1][2])])

\* The full_bibliography property: "[^{}]: {}".format(number, citation) over
\* enumerate(self.all_references.items()).
full_bibliography(refs) ==
    Join(<<"\n">>, [i \in 1..Len(refs) |-> BibLine(ToStr(i - 1), refs[i][2])])

\* Step 4 of on_page_markdown.  re.sub(re.escape(command), text, markdown)
\* replaces every occurrence of the command; the texts of the model hold no
\* backslash for re.sub to interpret.
InsertBibliography(markdown, cfg, citation_quads) ==
    Replace(IF cfg.bib_by_default THEN markdown \o <<"\n">> \o bib_command ELSE markdown,
            bib_command, format_bibliography(citation_quads))

\* Step 5 of on_page_markdown.
InsertFullBibliography(markdown, refs) ==
    Replace(markdown, full_bib_command, full_bibliography(refs))

\* Steps 3 to 5 of on_page_markdown, fc being what format_citations gave.
RenderPage(markdown, cfg, fc) ==
    [raised |-> fc.raised, all_references |-> fc.all_references, quads |-> fc.quads,
     ret |-> IF fc.raised # "" THEN <<>>
             ELSE InsertFullBibliography(
                      InsertBibliography(insert_citation_keys(fc.quads, markdown),
                                         cfg, fc.quads),
                      fc.all_references)]

on_page_markdown(markdown, cfg, bd, refs, fmt) ==
    RenderPage(markdown, cfg, format_citations(find_cite_blocks(markdown), bd, refs, fmt))

\* on_config: the bibfiles found (Path(bib_dir).rglob("*.bib")) and the
\* entries parsed from them, refs.update(bibdata.entries) file after file.
RECURSIVE LoadRefs(_, _)
LoadRefs(fs, names) ==
    IF names = <<>> THEN <<>>
    ELSE Update(LoadRefs(fs, SubSeq(names, 1, Len(names) - 1)),
                fs[names[Len(names)]].entries)

\* AllOlder with the comparison turned round.
AllNewer(fs, t) == \A i \in 1..Len(BibFiles) : fs[BibFiles[i]].mtime > t

\* all(Path(bibfile).stat().st_mtime < self.last_configured for bibfile in bibfiles)
AllOlder(fs, t) == \A i \in 1..Len(BibFiles) : fs[BibFiles[i]].mtime < t

\* -------------------------------------------------------------- actions
\* The messages of the two exceptions on_config raises (the second without
\* the backquotes the source puts around {number}).
MustSupply == "Must supply a bibtex file or directory for bibtex files"
MustInclude == "Must include {number} placeholder in footnote_format"

\* ------------------------------------------ tempfile_from_zotero_url
\* range(999) pages and range(3) attempts per page.
PageLimit == 999
Attempts == 3

\* The Zotero API serves the library in pages: a page's url is its number,
\* its text names it, and all but the last carry a "next" link.
PageText(u) == <<"p", Digit(u)>>

\* The local variable response while it is unbound.
NoResponse == [status |-> 0, text |-> <<>>, next |-> 0]

\* What a request of page u of a library of n pages answers with status 200.
PageResponse(u, n) ==
    [status |-> 200, text |-> PageText(u), next |-> IF u < n THEN u + 1 ELSE 0]

\* No call of tempfile_from_zotero_url is under way.
NoDownload ==
    [pc |-> "idle", pages |-> 0, url |-> 0, page_num |-> 0, tries |-> 0,
     response |-> NoResponse, bib_contents |-> <<>>, exceptions |-> 0,
     result |-> "", file |-> <<>>]

\* str() of the exception on_config raises for a missing source, character
\* by character.
MustSupplyText ==
    <<"M", "u", "s", "t", " ", "s", "u", "p", "p", "l", "y", " ",
      "a", " ", "b", "i", "b", "t", "e", "x", " ", "f", "i", "l",
      "e", " ", "o", "r", " ", "d", "i", "r", "e", "c", "t", "o",
      "r", "y", " ", "f", "o", "r", " ", "b", "i", "b", "t", "e",
      "x", " ", "f", "i", "l", "e", "s">>

Init ==
    /\ config = DefaultConfig
    /\ files = [f \in {BibFiles[i] : i \in 1..Len(BibFiles)} |->
                  [mtime |-> 0, entries |-> FirstContent]]
    /\ clock = 1
    /\ bib_data = <<>>
    /\ all_references = <<>>
    /\ footnote_format = <<>>
    /\ last_configured = <<>>
    /\ warnings = <<>>
    /\ call = NoCall
    /\ download = NoDownload

\* The site's mkdocs.yml is edited and mkdocs hands the plugin, which it
\* keeps across rebuilds (on_startup), the new options: self.config.
LoadConfig(c) ==
    /\ c # config
    /\ config' = c
    /\ call' = [NoCall EXCEPT !.op = "load_config"]
    /\ UNCHANGED <<files, clock, plugin, warnings, download>>

\* A bibliography file is written (or touched).
WriteBib(f, content) ==
    /\ clock <= MaxTime
    /\ files' = [files EXCEPT ![f] = [mtime |-> clock, entries |-> content]]
    /\ clock' = clock + 1
    /\ UNCHANGED <<config, plugin, warnings, call, download>>

\* on_config raises: no bib_file and no bib_dir.
OnConfigNoSource ==
    /\ ~config.bib_dir
    /\ call' = [NoCall EXCEPT !.op = "on_config",
                              !.raised = MustSupply]
    /\ UNCHANGED <<config, files, clock, plugin, warnings, download>>

\* on_config returns early: every file is older than the last configuration.
OnConfigUnchanged ==
    /\ config.bib_dir
    /\ last_configured # <<>> /\ AllOlder(files, last_configured[1])
    /\ call' = [NoCall EXCEPT !.op = "on_config"]
    /\ UNCHANGED <<config, files, clock, plugin, warnings, download>>

\* ClearedReferences with the clearing forgotten.
KeptReferences(refs) == refs

\* "Clear references on reconfig": self.all_references = OrderedDict()
ClearedReferences(refs) == <<>>

\* on_config reloads: references cleared, entries replaced, then the
\* footnote_format is checked and the time recorded.
OnConfigReload ==
    /\ config.bib_dir
    /\ ~(last_configured # <<>> /\ AllOlder(files, last_configured[1]))
    /\ all_references' = ClearedReferences(all_references)
    /\ bib_data' = <<LoadRefs(files, BibFiles)>>
    /\ IF ~Contains(config.footnote_format, NumberPlaceholder)
       THEN /\ call' = [NoCall EXCEPT !.op = "on_config",
                          !.raised = MustInclude]
            /\ UNCHANGED <<footnote_format, last_configured, clock>>
       ELSE /\ clock <= MaxTime
            /\ footnote_format' = <<config.footnote_format>>
            /\ last_configured' = <<clock>>
            /\ clock' = clock + 1
            /\ call' = [NoCall EXCEPT !.op = "on_config"]
    /\ UNCHANGED <<config, files, warnings, download>>

OnConfig == OnConfigNoSource \/ OnConfigUnchanged \/ OnConfigReload

\* A call that only format_citations' effects are seen of: all_references
\* as the call (r) left it, and the call recorded.
Called(op, markdown, cite_keys, r) ==
    /\ all_references' = r.all_references
    /\ call' = [op |-> op, markdown |-> markdown, cite_keys |-> cite_keys,
                raised |-> r.raised, quads |-> r.quads, ret |-> r.ret]
    /\ UNCHANGED <<config, files, clock, bib_data, footnote_format,
                   last_configured, warnings, download>>

OnPageMarkdown(markdown) ==
    Called("on_page_markdown", markdown, <<>>,
           on_page_markdown(markdown, config, bib_data, all_references, footnote_format))

\* format_citations called directly (as the tests do).
FormatCitations(cite_keys) ==
    Called("format_citations", <<>>, cite_keys,
           format_citations(cite_keys, bib_data, all_references, footnote_format))

Next ==
    \/ \E c \in Configs : LoadConfig(c)
    \/ \E i \in 1..Len(BibFiles) : \E content \in FileContents(BibFiles[i]) :
           WriteBib(BibFiles[i], content)
    \/ OnConfig
    \/ \E markdown \in Pages : OnPageMarkdown(markdown)
    \/ \E cite_keys \in CiteKeyLists : FormatCitations(cite_keys)

Spec == Init /\ [][Next]_vars

\* --------------------------------- tempfile_from_zotero_url, step by step
\* The call starts: bib_contents = "", url = sanitize_zotero_query(url), the
\* first turn of both loops; the library it downloads has n pages.
ZoteroStart(n) ==
    /\ download.pc = "idle"
    /\ download' = [NoDownload EXCEPT !.pc = "request", !.pages = n, !.url = 1]
    /\ UNCHANGED <<config, files, clock, plugin, warnings, call>>

\* requests.get raises a RequestException: caught and passed over; the
\* third one of a page ends the inner loop without a break.
RequestFails ==
    /\ download.pc = "request"
    /\ download.exceptions < MaxExceptions
    /\ download' = [download EXCEPT
                      !.tries = @ + 1,
                      !.exceptions = @ + 1,
                      !.pc = IF download.tries + 1 = Attempts THEN "append" ELSE "request"]
    /\ UNCHANGED <<config, files, clock, plugin, warnings, call>>

\* requests.get answers with a status other than 200: RuntimeError, which
\* the except clause does not catch.
RequestRefused ==
    /\ download.pc = "request"
    /\ download' = [download EXCEPT
                      !.tries = @ + 1,
                      !.response = [status |-> 500, text |-> <<>>, next |-> 0],
                      !.result = "RuntimeError",
                      !.pc = "done"]
    /\ UNCHANGED <<config, files, clock, plugin, warnings, call>>

\* requests.get answers with status 200: break.
RequestAnswered ==
    /\ download.pc = "request"
    /\ download' = [download EXCEPT
                      !.tries = @ + 1,
                      !.response = PageResponse(download.url, download.pages),
                      !.pc = "append"]
    /\ UNCHANGED <<config, files, clock, plugin, warnings, call>>

\* The file written once the outer loop is left, and its name returned.
Written(d) == [d EXCEPT !.file = d.bib_contents, !.result = "returned", !.pc = "done"]

\* After the inner loop, response being bound: bib_contents += response.text,
\* then url = response.links["next"]["url"]; KeyError leaves the outer loop,
\* and so does the end of range(999).
Appended(d) ==
    IF d.response.next = 0 THEN Written(d)
    ELSE IF d.page_num + 1 < PageLimit
         THEN [d EXCEPT !.url = d.response.next, !.page_num = @ + 1, !.tries = 0,
                        !.pc = "request"]
         ELSE Written([d EXCEPT !.url = d.response.next])

\* After the inner loop: response.text is read, response being bound or not.
AppendPage ==
    /\ download.pc = "append"
    /\ download' =
         IF download.response = NoResponse
         THEN [download EXCEPT !.result = "UnboundLocalError", !.pc = "done"]
         ELSE Appended([download EXCEPT !.bib_contents = @ \o download.response.text])
    /\ UNCHANGED <<config, files, clock, plugin, warnings, call>>

ZoteroNext ==
    \/ \E n \in 1..MaxPages : ZoteroStart(n)
    \/ RequestFails
    \/ RequestRefused
    \/ RequestAnswered
    \/ AppendPage

ZoteroSpec == Init /\ [][ZoteroNext]_vars

\* ------------------------------------------------------------- claims
\* What the claims speak of.
Citing(c) == c.op \in {"on_page_markdown", "format_citations"}

\* The cite_keys a call handed format_citations.
CiteKeysOf(c) == IF c.op = "on_page_markdown" THEN find_cite_blocks(c.markdown) ELSE c.cite_keys

\* The keys a call cited, in order of first appearance.
CitedKeys(c) == PairKeys(Pairs(CiteKeysOf(c)))

\* The entry database holds key.
Resolved(key) == bib_data # <<>> /\ HasKey(bib_data[1], key)

\* The keys of the registry, in first-encounter order.
RegistryKeys == [i \in 1..Len(all_references) |-> all_references[i][1]]

\* The label of footnote id n under the current footnote_format.
LabelOf(n) == format_footnote_key(footnote_format[1], ToStr(n))

\* The lines of a text.
RECURSIVE SplitLines(_)
SplitRest(s, n) ==
    IF n = Len(s) THEN <<s>>
    ELSE <<SubSeq(s, 1, n)>> \o SplitLines(SubSeq(s, n + 2, Len(s)))

SplitLines(s) == SplitRest(s, Run(IsDot, s, 1))

HasLine(text, line) == \E i \in 1..Len(SplitLines(text)) : SplitLines(text)[i] = line

\* A step that is a call of on_page_markdown or format_citations.
CitingStep == Citing(call') /\ files' = files

\* C1: the footnote id a call gives a resolved key is the key's 1-based rank
\* among the keys resolved so far in the generation (its place in the
\* registry), so a key has one id in every document and no two keys share one.
C1_IdIsGlobalRank ==
    (Citing(call) /\ call.raised = "") =>
        \A i \in 1..Len(call.quads) :
            call.quads[i][3] = LabelOf(IndexOf(RegistryKeys, call.quads[i][2]))

\* C2: a key of the entry database cited once in a document has a line in the
\* document's bibliography and a line in the full bibliography, with the same
\* footnote id and the same rendered text.
C2_RoundTrip ==
    (call.op = "on_page_markdown" /\ call.raised = "") =>
        \A i \in 1..Len(call.quads) :
            (\A j \in 1..Len(call.quads) : call.quads[j][2] = call.quads[i][2] => j = i)
            => /\ HasLine(format_bibliography(call.quads),
                          BibLine(call.quads[i][3], call.quads[i][4]))
               /\ HasLine(full_bibliography(all_references),
                          BibLine(call.quads[i][3], call.quads[i][4]))

\* The number of warnings logged for key.
WarningsFor(log, key) == Cardinality({i \in 1..Len(log) : log[i] = key})

\* The keys a call cited that the entry database does not hold.
MissingKeys(c) == {k \in {CitedKeys(c)[i] : i \in 1..Len(CitedKeys(c))} : ~Resolved(k)}

\* C3: a format_citations call that cites a key absent from the entry
\* database leaves the key warned about, logs the warning at most once, and
\* does not log it when the call before cited the key already.
C3_MissingKeyWarnedOnce ==
    [][(CitingStep /\ call'.raised = "") =>
          \A k \in MissingKeys(call') :
              IF Citing(call) /\ k \in MissingKeys(call)
              THEN WarningsFor(warnings', k) = WarningsFor(warnings, k)
              ELSE /\ WarningsFor(warnings', k) >= 1
                   /\ WarningsFor(warnings', k) <= WarningsFor(warnings, k) + 1]_vars

\* C4: the same call made twice in succession, with no other call on the
\* plugin in between, gives the same outcome (text, quads, exception) and
\* the second call leaves the registry as it was.
C4_Idempotent ==
    [][(CitingStep /\ call.op = call'.op /\ call.markdown = call'.markdown
          /\ call.cite_keys = call'.cite_keys)
       => (call' = call /\ all_references' = all_references)]_vars

\* C4's case: a page that cites a resolved key and inserts the full
\* bibliography has been processed, the registry holding two keys.
C4_Witness ==
    /\ call.op = "on_page_markdown" /\ call.raised = ""
    /\ Contains(call.markdown, full_bib_command)
    /\ call.quads # <<>>
    /\ Len(all_references) >= 2

\* The command-form markers of the pages: text, keys and note.
CommandMarkers ==
    { [text |-> CmdCiteANote, keys |-> <<KeyA>>, note |-> <<"S", " ", "4">>],
      [text |-> CmdCiteAB, keys |-> <<KeyA, KeyB>>, note |-> <<>>],
      [text |-> CmdCiteM, keys |-> <<KeyM>>, note |-> <<>>] }

\* What replaces a command-form marker: a [^id] per resolved key in order,
\* then a blank and the note when there is one.
RECURSIVE MarkerRefs(_)
MarkerRefs(keys) ==
    IF keys = <<>> THEN <<>>
    ELSE (IF Resolved(keys[1])
          THEN <<"[", "^">> \o LabelOf(IndexOf(RegistryKeys, keys[1])) \o <<"]">>
          ELSE <<>>) \o MarkerRefs(Tail(keys))

MarkerReplacement(mk) ==
    MarkerRefs(mk.keys) \o (IF mk.note = <<>> THEN <<>> ELSE <<" ">> \o mk.note)

\* C5: on_page_markdown replaces every command-form marker that has a
\* resolved key by the [^id] references of its own resolved keys, in order,
\* followed by a blank and the note.
C5_CommandMarkerReplaced ==
    (call.op = "on_page_markdown" /\ call.raised = "") =>
        \A mk \in CommandMarkers :
            (Contains(call.markdown, mk.text)
               /\ \E i \in 1..Len(mk.keys) : Resolved(mk.keys[i]))
            => /\ ~Contains(call.ret, mk.text)
               /\ Contains(call.ret, MarkerReplacement(mk))

\* Text whose only citation-like content is bracket-form markers.
OnlyLegacy(markdown) ==
    /\ Contains(markdown, <<"[", "@">>)
    /\ ~Contains(markdown, <<"\\", "c", "i", "t", "e">>)
    /\ ~Contains(markdown, bib_command)
    /\ ~Contains(markdown, full_bib_command)

\* C6: text with only bracket-form markers is not processed: no block is
\* found in it and, bib_by_default being false, on_page_markdown returns it
\* unchanged and adds nothing to the registry.
C6_LegacyNotProcessed ==
    [][(CitingStep /\ call'.op = "on_page_markdown" /\ OnlyLegacy(call'.markdown)
          /\ ~config.bib_by_default /\ call'.raised = "")
       => /\ find_cite_blocks(call'.markdown) = <<>>
          /\ call'.ret = call'.markdown
          /\ all_references' = all_references]_vars

\* A step in which on_config starts a new generation.
ReloadStep == call'.op = "on_config" /\ bib_data' # <<>> /\ last_configured' # last_configured

\* C7: an on_config that starts a new generation empties the registry (and
\* with it the full bibliography), and the first resolved key met afterwards
\* gets footnote id 1.
C7_ReloadResetsNumbering ==
    [][/\ ReloadStep => (all_references' = <<>> /\ full_bibliography(all_references') = <<>>)
       /\ (CitingStep /\ call.op = "on_config" /\ call.raised = "" /\ all_references = <<>>
             /\ call'.raised = "" /\ call'.quads # <<>>)
          => call'.quads[1][3] = LabelOf(1)]_vars

\* C8: on_config called while every bibliography file is older than the last
\* configuration changes nothing of the plugin: entries, registry, footnote
\* format and configuration time.
C8_UnchangedFilesKeepGeneration ==
    [][(call'.op = "on_config" /\ files' = files /\ last_configured # <<>>
          /\ \A i \in 1..Len(BibFiles) : files[BibFiles[i]].mtime < last_configured[1])
       => UNCHANGED plugin]_vars

\* C8's case: on_config has returned with the registry still filled.
C8_Witness ==
    /\ call.op = "on_config" /\ call.raised = ""
    /\ all_references # <<>>
    /\ \A i \in 1..Len(BibFiles) : files[BibFiles[i]].mtime < last_configured[1]

\* C9: after on_config is called again with the bibliography files untouched
\* (the registry it leaves is still filled), the next call that cites a
\* missing key logs the not-found warning for it exactly once.
C9_WarnedAgainAfterOnConfig ==
    [][(CitingStep /\ call.op = "on_config" /\ call.raised = "" /\ all_references # <<>>
          /\ call'.raised = "")
       => \A k \in MissingKeys(call') :
              WarningsFor(warnings', k) = WarningsFor(warnings, k) + 1]_vars

\* The rendered text of an entry of key starts with this.
TextHead(key) == <<"T">> \o key \o <<" ">>

\* C10: no key absent from the entry database is in the registry, in a quad
\* of the last call, or (by its rendered text) in the text the call returned
\* with the bibliographies inserted.
C10_NoAbsentKey ==
    /\ \A i \in 1..Len(all_references) : Resolved(all_references[i][1])
    /\ Citing(call) =>
          /\ \A i \in 1..Len(call.quads) : Resolved(call.quads[i][2])
          /\ \A k \in {KeyA, KeyB, KeyM} :
                ~Resolved(k) =>
                   /\ ~Contains(call.ret, TextHead(k))
                   /\ ~Contains(format_bibliography(call.quads), TextHead(k))
                   /\ ~Contains(full_bibliography(all_references), TextHead(k))

\* C10's case: the entry database has lost KeyB since it was first loaded,
\* and a page citing KeyB and the missing key has been processed.
C10_Witness ==
    /\ call.op = "on_page_markdown" /\ call.raised = "" /\ call.quads # <<>>
    /\ ~Resolved(KeyB)
    /\ Contains(call.markdown, CiteB)

\* C11: an on_config call made while the configured footnote_format has no
\* {number} placeholder raises, also after an earlier configuration that
\* succeeded and whether or not the bibliography files changed since.
C11_InvalidFormatRaises ==
    (call.op = "on_config" /\ ~Contains(config.footnote_format, NumberPlaceholder))
        => call.raised # ""

\* The command-form markers of a text from position i on, left to right.
RECURSIVE CommandBlocksFrom(_, _)
CommandBlocksFrom(s, i) ==
    IF i > Len(s) THEN <<>>
    ELSE IF \E mk \in CommandMarkers : StartsWith(s, i, mk.text)
         THEN LET mk == CHOOSE m \in CommandMarkers : StartsWith(s, i, m.text)
              IN <<mk.text>> \o CommandBlocksFrom(s, i + Len(mk.text))
         ELSE CommandBlocksFrom(s, i + 1)

\* Text whose citation markers are all of the command form.
OnlyCommands(markdown) ==
    /\ CommandBlocksFrom(markdown, 1) # <<>>
    /\ ~Contains(markdown, <<"[", "@">>)

\* C12: for text with well-formed command-form markers, find_cite_blocks
\* returns exactly those markers, left to right, two markers with text
\* between them as two blocks.
C12_CommandBlocksFound ==
    (call.op = "on_page_markdown" /\ OnlyCommands(call.markdown))
        => find_cite_blocks(call.markdown) = CommandBlocksFrom(call.markdown, 1)

\* The keys a marker of cite_keys should give: those of its braced list.
MarkerOf(text) == CHOOSE mk \in CommandMarkers : mk.text = text

\* C14: extract_cite_keys gives, for a well-formed command-form marker, the
\* keys of its braced list in order; the bracketed note gives no key.
C14_CommandKeysExtracted ==
    call.op = "format_citations" =>
        \A i \in 1..Len(call.cite_keys) :
            (\E mk \in CommandMarkers : mk.text = call.cite_keys[i])
            => extract_cite_keys(call.cite_keys[i]) = MarkerOf(call.cite_keys[i]).keys

\* The near-misses of the pages.
NearMisses == {OtherCommand, OpenNote, MailText}

\* C13: find_cite_blocks returns no block for a command of another name, a
\* command form whose brackets are not balanced, or e-mail-like bracket text.
C13_NearMissesNotMatched ==
    (call.op = "on_page_markdown" /\ call.markdown \in NearMisses)
        => /\ find_cite_blocks(call.markdown) = <<>>
           /\ call.quads = <<>>

\* C13's case: the page of e-mail-like bracket text has been processed.
C13_Witness ==
    call.op = "on_page_markdown" /\ call.markdown = MailText /\ call.raised = ""

\* C15: a command-form marker whose key list is not closed gives no key,
\* format_citations raises nothing on it and returns no quad, and
\* on_page_markdown leaves its text in the page.
C15_MalformedLeftAlone ==
    /\ (call.op = "format_citations" /\ call.cite_keys = <<OpenKeys>>)
          => /\ extract_cite_keys(OpenKeys) = <<>>
             /\ call.raised = ""
             /\ call.quads = <<>>
    /\ (call.op = "on_page_markdown" /\ Contains(call.markdown, OpenKeys)
          /\ call.raised = "")
          => /\ Contains(call.ret, OpenKeys)
             /\ \A i \in 1..Len(call.quads) : ~Contains(call.quads[i][1], OpenKeys)

\* C15's case: a page with the unclosed marker and a citation has been
\* processed, the citation replaced.
C15_Witness ==
    /\ call.op = "on_page_markdown" /\ call.raised = ""
    /\ Contains(call.markdown, OpenKeys)
    /\ call.quads # <<>>

\* A step that is a call of on_config.
OnConfigStep == call'.op = "on_config" /\ files' = files /\ config' = config

\* C16: an on_config call either completes a new generation (registry
\* cleared, entries and label template replaced, configuration time
\* updated) or leaves all of that state as it was; a call that raises leaves
\* the registry and the entries unchanged.
C16_ReconfigurationAllOrNothing ==
    [][OnConfigStep =>
          /\ \/ UNCHANGED plugin
             \/ /\ all_references' = <<>>
                /\ bib_data' = <<LoadRefs(files, BibFiles)>>
                /\ footnote_format' = <<config.footnote_format>>
                /\ last_configured' # last_configured
          /\ call'.raised # "" => UNCHANGED <<all_references, bib_data>>]_vars

\* The distinct footnote ids of a document's quads, in first-occurrence
\* order, and the line of each: the id with the text of its first quad.
DocIds(quads) == Dedup([i \in 1..Len(quads) |-> quads[i][3]])

FirstWith(quads, id) ==
    CHOOSE i \in 1..Len(quads) :
        quads[i][3] = id /\ \A j \in 1..(i - 1) : quads[j][3] # id

DocLines(quads) ==
    [n \in 1..Len(DocIds(quads)) |->
        <<"[", "^">> \o DocIds(quads)[n] \o <<"]", ":", " ">>
            \o quads[FirstWith(quads, DocIds(quads)[n])][4]]

\* C17: the bibliography of a document is one line "[^id]: text" per
\* distinct footnote id of the document's quads, in first-occurrence order,
\* joined by newlines; on_page_markdown puts it in the page; it holds no key
\* the document does not cite.
C17_DocumentBibliography ==
    (call.op = "on_page_markdown" /\ call.raised = "") =>
        /\ SplitLines(format_bibliography(call.quads))
             = (IF call.quads = <<>> THEN << <<>> >> ELSE DocLines(call.quads))
        /\ config.bib_by_default
             => Contains(call.ret, <<"\n">> \o format_bibliography(call.quads))
        /\ \A k \in {KeyA, KeyB, KeyM} :
              (\A i \in 1..Len(CitedKeys(call)) : CitedKeys(call)[i] # k)
              => ~Contains(format_bibliography(call.quads), TextHead(k))

\* C17's case: a page citing one key in two markers and another key in a
\* third has been processed, the registry holding a key of another page.
C17_Witness ==
    /\ call.op = "on_page_markdown" /\ call.raised = ""
    /\ Len(call.quads) > Len(DocIds(call.quads))
    /\ Len(DocIds(call.quads)) >= 2

\* The resolved keys a call cited that the registry refs did not hold yet,
\* in order of first appearance.
NewlySeen(c, refs) ==
    LET New(k) == Resolved(k) /\ ~HasKey(refs, k) IN SelectSeq(CitedKeys(c), New)

\* The full bibliography of the registry refs has one line per key of the
\* registry, in the registry's order, each holding the text of its key.
OneLinePerKey(refs) ==
    LET lines == SplitLines(full_bibliography(refs))
    IN IF refs = <<>> THEN lines = << <<>> >>
       ELSE /\ Len(lines) = Len(refs)
            /\ \A i \in 1..Len(refs) :
                  /\ Contains(lines[i], <<":", " ">> \o TextHead(refs[i][1]))
                  /\ \A j \in 1..Len(refs) : refs[j][1] = refs[i][1] => j = i

\* C18: the keys of the registry are the resolved keys seen in the
\* generation, in first-seen order across documents (a call appends the
\* resolved keys it cites that are new, a reload starts from none), and the
\* full bibliography has exactly one line for each of them, in that order.
C18_FullBibliography ==
    [][/\ CitingStep =>
            [i \in 1..Len(all_references') |-> all_references'[i][1]]
                = RegistryKeys \o NewlySeen(call', all_references)
       /\ ReloadStep => all_references' = <<>>
       /\ OneLinePerKey(all_references')]_vars

\* C18's case: KeyB was seen before KeyA, in another document than the one
\* that now inserts the full bibliography.
C18_Witness ==
    /\ call.op = "on_page_markdown" /\ call.raised = ""
    /\ Contains(call.markdown, full_bib_command)
    /\ RegistryKeys = <<KeyB, KeyA>>
    /\ Contains(call.ret, full_bibliography(all_references))

\* C19: a document-processing call only appends to the registry: the
\* entries it held stay, in place and with their text, and what is appended
\* is keys it did not hold, each once.
C19_RegistryAppendOnly ==
    [][CitingStep =>
          /\ Len(all_references') >= Len(all_references)
          /\ SubSeq(all_references', 1, Len(all_references)) = all_references
          /\ \A i \in (Len(all_references) + 1)..Len(all_references') :
                /\ ~HasKey(all_references, all_references'[i][1])
                /\ \A j \in (Len(all_references) + 1)..Len(all_references') :
                      all_references'[j][1] = all_references'[i][1] => j = i]_vars

\* C19's case: a page citing KeyB before KeyA has been processed, the
\* registry holding KeyA, registered by an earlier call, before KeyB.
C19_Witness ==
    /\ call.op = "on_page_markdown" /\ call.raised = ""
    /\ call.markdown = CiteB \o <<" ">> \o CiteA
    /\ RegistryKeys = <<KeyA, KeyB>>

\* C20: on_config called with no bibliography source configured raises an
\* exception whose message names bib_dir, no plugin state changed.
C20_NoSourceNamesBibDir ==
    [][(OnConfigStep /\ ~config.bib_dir) =>
          /\ call'.raised = MustSupply
          /\ Contains(MustSupplyText, <<"b", "i", "b", "_", "d", "i", "r">>)
          /\ UNCHANGED plugin]_vars

\* The resolved keys a call cited, in order of first appearance.
ResolvedKeys(c) == SelectSeq(CitedKeys(c), Resolved)

\* C21: a missing key takes no footnote id: the id of a resolved key of a
\* document is its rank among the document's resolved keys, whether or not
\* absent keys are cited alongside or before it.
C21_MissingKeyTakesNoId ==
    (Citing(call) /\ call.raised = "") =>
        \A i \in 1..Len(call.quads) :
            call.quads[i][3] = LabelOf(IndexOf(ResolvedKeys(call), call.quads[i][2]))

\* The elements of a sequence.
Range(xs) == {xs[i] : i \in 1..Len(xs)}

AllAbsent(keys) == keys # <<>> /\ \A i \in 1..Len(keys) : ~Resolved(keys[i])

\* The markers of a text whose keys are all absent from the entry database:
\* the blocks located in it, and its command-form markers.
AbsentMarkers(markdown) ==
    {blk \in Range(find_cite_blocks(markdown)) : AllAbsent(extract_cite_keys(blk))}
    \cup {t \in Range(CommandBlocksFrom(markdown, 1)) : AllAbsent(MarkerOf(t).keys)}

\* C22: on a configured plugin, a marker whose keys are all absent from the
\* entry database gives no quad and stays verbatim in the text
\* on_page_markdown returns, and the call does not raise.
C22_AbsentMarkerLeftVerbatim ==
    (call.op = "on_page_markdown" /\ last_configured # <<>>) =>
        \A mk \in AbsentMarkers(call.markdown) :
            /\ call.raised = ""
            /\ \A i \in 1..Len(call.quads) : call.quads[i][1] # mk
            /\ Contains(call.ret, mk)

\* C22's case: a page citing the missing key and a resolved key has been
\* processed on a configured plugin, the resolved key replaced.
C22_Witness ==
    /\ call.op = "on_page_markdown" /\ call.raised = "" /\ last_configured # <<>>
    /\ call.markdown = CiteM \o <<" ">> \o CiteA
    /\ call.quads # <<>>
    /\ Contains(call.ret, CiteM)

\* The quads of a call that belong to the marker blk, in order.
QuadsOf(c, blk) ==
    LET OfBlock(q) == q[1] = blk IN SelectSeq(c.quads, OfBlock)

\* What a marker is to be replaced by: a [^id] per quad of the marker, then
\* a blank and the marker's trimmed suffix when it has one.
RECURSIVE IdRefs(_)
IdRefs(quads) ==
    IF quads = <<>> THEN <<>>
    ELSE <<"[", "^">> \o quads[1][3] \o <<"]">> \o IdRefs(Tail(quads))

ReplacementOf(c, blk) == IdRefs(QuadsOf(c, blk)) \o SuffixOf(blk)

\* C23: in the text on_page_markdown returns, every located marker that has
\* a resolved key has been replaced by its replacement text: the marker's
\* string is gone and its replacement is there.
C23_EveryOccurrenceReplaced ==
    (call.op = "on_page_markdown" /\ call.raised = "") =>
        \A blk \in Range(find_cite_blocks(call.markdown)) :
            QuadsOf(call, blk) # <<>>
            => /\ ~Contains(call.ret, blk)
               /\ Contains(call.ret, ReplacementOf(call, blk))

\* C24: after an on_config call that returns normally, the label template
\* format_citations uses is the configured footnote_format, also when the
\* option was changed while the bibliography files were not.
C24_ConfiguredFormatInUse ==
    (call.op = "on_config" /\ call.raised = "")
        => footnote_format = <<config.footnote_format>>

\* The texts of the first k pages of the library, one after the other.
RECURSIVE FirstPages(_)
FirstPages(k) == IF k = 0 THEN <<>> ELSE FirstPages(k - 1) \o PageText(k)

\* C25: tempfile_from_zotero_url raises RuntimeError when a page cannot be
\* downloaded (a status other than 200, or three failed attempts), raises
\* nothing else, appends each page's text once and no other text, makes at
\* most 3 attempts per page and requests at most 999 pages.
C25_ZoteroDownload ==
    /\ download.result \in {"", "returned", "RuntimeError"}
    /\ (download.response.status \notin {0, 200}) => download.result = "RuntimeError"
    /\ (download.pc # "request" /\ download.tries = Attempts
          /\ download.response # PageResponse(download.url, download.pages))
          => download.result = "RuntimeError"
    /\ \E k \in 0..MaxPages : download.bib_contents = FirstPages(k)
    /\ download.tries <= Attempts
    /\ download.page_num < PageLimit

====
